---- MODULE Spec2Model ----
(***************************************************************************)
(* The three versions of the useAutoLyrixAlign hook that are concatenated  *)
(* in src/hooks/useAutoLyrixAlign.tsx:                                     *)
(*   hook 1 (lines 182-331)  timer based, currentJob / isProcessing        *)
(*   hook 2 (lines 505-698)  timer based, currentJob / isProcessing        *)
(*   hook 3 (lines 718-954)  loop based, progress / error / result         *)
(* One behaviour uses one hook version (variable hook).  Every call of     *)
(* startAlignment owns a closure (job, startTime, ... indexed by call).    *)
(* Each action is one synchronous block of the code, from one await or     *)
(* timer callback to the next.  The remote (GitHub) is the environment:    *)
(* every response is an arbitrary well-formed answer.  The message field   *)
(* of the job (display text) is not modelled.                              *)
(***************************************************************************)
EXTENDS Integers, Sequences, FiniteSets, TLC

VARIABLES
    hook,          \* which version of the hook the page uses
    token,         \* import.meta.env.VITE_GITHUB_TOKEN is set
    created,       \* the remote's runs: run id -> created_at, milliseconds
    lyrics,        \* the lyrics text passed to startAlignment, as characters
    body,          \* per call: the lyrics field of the dispatch body it sent
    now,           \* Date.now(), milliseconds
    currentJob,    \* hooks 1, 2: useState<AlignmentJob | null>
    isProcessing,  \* all hooks: useState(false)
    progress,      \* hook 3: useState(0)
    error,         \* hook 3: useState<string | null>(null)
    result,        \* hook 3: useState<AlignmentResult | null>(null)
    promise,       \* per call: the promise returned by startAlignment
    job,           \* hooks 1, 2, per call: the closure's job object
    startTime,     \* hooks 1, 2, per call: const startTime = Date.now()
    dispatchTime,  \* hook 3, per call: const dispatchTime = new Date();
                   \*   hooks 1, 2: const timestamp = Date.now() of generateJobId
    workflowRun,   \* hook 3, per call: let workflowRun (the id of the run
                   \*   object it refers to, 0 for null)
    attempts,      \* hook 3, per call: let attempts
    currentRun,    \* hook 3, per call: let currentRun
    pollAttempts,  \* hook 3, per call: let pollAttempts
    pollFailures,  \* hook 3, per call: status requests that failed so far
    ended,         \* hook 3, per call: how the call ended ("no", "result" or
                   \*   the message passed to setError)
    timers,        \* per call: pending setTimeout callbacks
    inflight,      \* per call: awaited operations that have not settled
    issued,        \* per call: kinds of network request sent so far
    pubNow,        \* per call: progress values published by the latest block
                   \*   of the call that published any
    pub100,        \* per call: the call has published progress 100
    seen,          \* per call: conclusions a poll has read on the run it tracks
    selected,      \* per call: ids of the runs its polls have selected
    answered,      \* per call: the request answered last and how (kind, outcome;
                   \*   hook 3: the ids of the runs of a list answer, as logged)
    timeouts       \* per call: number of times the timeout branch ran

vars == <<hook, token, created, lyrics, body, now, currentJob, isProcessing, progress, error, result,
          promise, job, startTime, dispatchTime, workflowRun, attempts,
          currentRun, pollAttempts, pollFailures, ended, timers, inflight, issued, pubNow,
          pub100, seen, selected, answered, timeouts>>

hook3State == <<progress, error, result>>
local12 == <<job, startTime>>
loops3 == <<workflowRun, attempts, currentRun, pollAttempts, pollFailures, ended>>
local3 == <<dispatchTime, workflowRun, attempts, currentRun, pollAttempts,
            pollFailures, ended>>
envVars == <<hook, token, created, lyrics>>
observed == <<seen, selected, answered, timeouts>>
published == <<pubNow, pub100>>

-----------------------------------------------------------------------------
(* Bounds of the model *)
MaxCalls == 2
MaxTime == 620000
MaxStartTime == 5000
MaxOverlapTime == 10000
LongLatency == 600000
MaxListLen == 2
MaxArtifacts == 2
MaxPollFailures == 2

Calls == 1..MaxCalls
Latencies == {0, LongLatency}

(* Program constants *)
maxWaitTime1Short == 10 * 60 * 100
maxWaitTime1 == 10 * 60 * 1000
pollInterval1 == 10000
maxWaitTime2Never == 8 * 60 * 1000 * 1000
maxWaitTime2 == 8 * 60 * 1000
pollInterval2 == 10000
maxAttemptsMore == 12 + 1
maxAttempts == 12
maxPollAttemptsShort == 60 - 1
maxPollAttempts == 60

-----------------------------------------------------------------------------
(* Values *)
Min(a, b) == IF a <= b THEN a ELSE b

Last(s) == s[Len(s)]

NoJob ==
    [status |-> "null", progress |-> 0, error |-> "undefined",
     results |-> <<>>, resultsSet |-> FALSE, workflowRunId |-> 0]

NoRun == [id |-> 0, created_at |-> 0, status |-> "null", conclusion |-> "null"]

NoResult == [lrcContent |-> "null", downloadUrl |-> "null"]

(* The remote's runs: run 1 and run 2 (another dispatch of the same         *)
(* workflow)                                                                *)
RunIds == {1, 2}

CreatedAt(id) == created[id]

Snapshots ==
    {[id |-> i, created_at |-> CreatedAt(i), status |-> s, conclusion |-> k] :
        i \in RunIds, s \in {"queued", "in_progress"}, k \in {"null"}}
    \cup
    {[id |-> i, created_at |-> CreatedAt(i), status |-> s, conclusion |-> k] :
        i \in RunIds, s \in {"completed"},
        k \in {"success", "failure", "cancelled"}}

(* A list answer at time t: runs that exist at t, each at most once, in any *)
(* order (so no longer than there are runs).                                *)
RunLists(t) ==
    {l \in UNION {[1..n -> {r \in Snapshots : r.created_at <= t}] :
                    n \in 0..Min(MaxListLen, Cardinality(RunIds))} :
        \A i, j \in 1..Len(l) : i # j => l[i].id # l[j].id}

ArtifactSet ==
    {[name |-> "lrc_output", archive_download_url |-> "url_lrc_output"],
     [name |-> "logs", archive_download_url |-> "url_logs"]}

ArtifactLists ==
    {l \in UNION {[1..n -> ArtifactSet] : n \in 0..MaxArtifacts} :
        \A i, j \in 1..Len(l) : i # j => l[i] # l[j]}

(* the elements of an array *)
Elements(l) == {l[i] : i \in 1..Len(l)}

(* Array.prototype.find: the first element of l among those that satisfy   *)
(* the test (the set hits), or NoRun (undefined)                            *)
Find(l, hits) ==
    IF \E i \in 1..Len(l) : l[i] \in hits
    THEN l[CHOOSE i \in 1..Len(l) : l[i] \in hits /\ \A j \in 1..(i - 1) : l[j] \notin hits]
    ELSE NoRun

(* run.created_at > new Date(t).toISOString(): the API's created_at has no  *)
(* milliseconds ("...:12Z"), toISOString has ("...:12.000Z"); the strings   *)
(* are compared character by character and "Z" sorts after ".".             *)
IsoGreater(created_at, t) == (created_at \div 1000) >= (t \div 1000)

-----------------------------------------------------------------------------
(* Timers, requests and the record of published progress *)
Dues == UNION {{timers[c][i].due : i \in 1..Len(timers[c])} : c \in Calls}

(* How far the clock runs: behaviours in which a second call has started    *)
(* are followed up to MaxOverlapTime, the others up to MaxTime.             *)
Horizon ==
    IF \E c \in Calls : c > 1 /\ promise[c] # "none" THEN MaxOverlapTime ELSE MaxTime

(* Events happen in time order: a timer callback runs at its due time, and  *)
(* an answer that takes d ms arrives before any timer due later than that.  *)
TimerReady(c) ==
    /\ timers[c] # <<>>
    /\ Head(timers[c]).due <= Horizon
    /\ \A t \in Dues : Head(timers[c]).due <= t

CanArrive(d) ==
    /\ now + d <= Horizon
    /\ \A t \in Dues : now + d <= t

Awaiting(c, kind) == \E i \in 1..Len(inflight[c]) : inflight[c][i] = kind

Settle(s, kind) ==
    LET i == CHOOSE k \in 1..Len(s) : s[k] = kind /\ \A m \in 1..(k - 1) : s[m] # kind
    IN  SubSeq(s, 1, i - 1) \o SubSeq(s, i + 1, Len(s))

NetworkKinds == {"repo", "dispatch", "list", "run", "artifacts"}

(* Records what call c passed to setCurrentJob / setProgress in this block *)
Publish(c, vals) ==
    IF vals = <<>>
    THEN UNCHANGED published
    ELSE /\ pubNow' = [pubNow EXCEPT ![c] = vals]
         /\ pub100' = [pub100 EXCEPT ![c] = @ \/ \E i \in 1..Len(vals) : vals[i] = 100]

(* Records the answer that call c has just received *)
Answered(c, kind, outcome) ==
    answered' = [answered EXCEPT ![c] = [kind |-> kind, outcome |-> outcome, runs |-> {}]]

(* Records the list answer that call c of hook 3 has just received, with    *)
(* the runs that line 818 logs                                              *)
AnsweredList(c, answer) ==
    answered' = [answered EXCEPT ![c] =
        [kind |-> "list", outcome |-> answer.kind,
         runs |-> {answer.runs[i].id : i \in 1..Len(answer.runs)}]]

(* fetch of hooks 1 and 2's api: ok, or the error it throws *)
Outcome(ok) == IF ok THEN "ok" ELSE "error"

(* how an artifacts request was answered: rejected, an empty list, or a    *)
(* list with artifacts in it                                               *)
ArtifactsOutcome(answer) ==
    IF ~answer.ok THEN "error"
    ELSE IF Len(answer.artifacts) = 0 THEN "empty"
    ELSE "ok"

(* a lyrics text of n characters, the character depending on the position *)
Text(n) == [i \in 1..n |-> <<"a", "b", "c">>[(i % 3) + 1]]

(* String.prototype.substring(0, k): the first k characters, or all of them *)
substring(text, k) == SubSeq(text, 1, Min(k, Len(text)))

(* client_payload.lyrics_text of the first hook's dispatch body (line 101) *)
lyrics_text1(lyricsText) == lyricsText

(* truncatedLyrics of the second hook's dispatch body (lines 417-420) *)
truncatedLyrics(lyricsText) ==
    IF Len(lyricsText) > 1000
    THEN substring(lyricsText, 1000) \o <<".", ".", ".">>
    ELSE lyricsText

(* client_payload.lyrics of the third hook's dispatch body (line 763) *)
lyrics3(text) == text

StartOK(c) ==
    /\ promise[c] = "none"
    /\ now <= MaxStartTime
    /\ \A b \in Calls : b < c => promise[b] # "none"

DispatchOutcomes ==
    IF token THEN {"ok", "http_error", "network_error"}
    ELSE {"http_error", "network_error"}

ListAnswers(t) ==
    {[ok |-> FALSE, runs |-> <<>>]} \cup {[ok |-> TRUE, runs |-> l] : l \in RunLists(t)}

ListAnswers3(t) ==
    {[kind |-> k, runs |-> <<>>] : k \in {"http_error", "network_error"}}
    \cup {[kind |-> "ok", runs |-> l] : l \in RunLists(t)}

(* GET /actions/runs/{id} answers with a snapshot of that run *)
RunAnswers(id) ==
    {[kind |-> k, run |-> NoRun] : k \in {"http_error", "network_error"}}
    \cup {[kind |-> "ok", run |-> r] : r \in {x \in Snapshots : x.id = id}}

ArtifactAnswers ==
    {[ok |-> FALSE, artifacts |-> <<>>]}
    \cup {[ok |-> TRUE, artifacts |-> l] : l \in ArtifactLists}

-----------------------------------------------------------------------------
(* the hook after its first render, no call of startAlignment made yet *)
Mounted ==
    /\ now = 0
    /\ currentJob = NoJob
    /\ isProcessing = FALSE
    /\ progress = 0
    /\ error = "null"
    /\ result = NoResult
    /\ promise = [c \in Calls |-> "none"]
    /\ job = [c \in Calls |-> NoJob]
    /\ startTime = [c \in Calls |-> 0]
    /\ dispatchTime = [c \in Calls |-> 0]
    /\ workflowRun = [c \in Calls |-> 0]
    /\ attempts = [c \in Calls |-> 0]
    /\ currentRun = [c \in Calls |-> NoRun]
    /\ pollAttempts = [c \in Calls |-> 0]
    /\ pollFailures = [c \in Calls |-> 0]
    /\ ended = [c \in Calls |-> "no"]
    /\ timers = [c \in Calls |-> <<>>]
    /\ inflight = [c \in Calls |-> <<>>]
    /\ issued = [c \in Calls |-> {}]
    /\ pubNow = [c \in Calls |-> <<>>]
    /\ pub100 = [c \in Calls |-> FALSE]
    /\ seen = [c \in Calls |-> {}]
    /\ selected = [c \in Calls |-> {}]
    /\ answered = [c \in Calls |-> [kind |-> "none", outcome |-> "none", runs |-> {}]]
    /\ timeouts = [c \in Calls |-> 0]
    /\ body = [c \in Calls |-> <<>>]

(* run 1 is created 12 s after time 0, run 2 45 s after time 0 *)
Init ==
    /\ hook \in {1, 2, 3}
    /\ token \in BOOLEAN
    /\ created = [id \in RunIds |-> IF id = 1 THEN 12000 ELSE 45000]
    /\ lyrics = Text(1)
    /\ Mounted

(* the third hook with runs created at the edges of the correlation window  *)
(* of a dispatch at time 0, just inside and just outside                    *)
WindowEdges ==
    {<<-5000, 30001>>, <<-5001, 30000>>, <<-5000, 30000>>}

InitWindow ==
    /\ hook = 3
    /\ token = TRUE
    /\ created \in {[id \in RunIds |-> e[id]] : e \in WindowEdges}
    /\ lyrics = Text(1)
    /\ Mounted

-----------------------------------------------------------------------------
(* Hook 1 *)

(* startAlignment up to the await of uploadFile (lines 196-213, 82-85) *)
Start1(c) ==
    /\ hook = 1
    /\ StartOK(c)
    /\ isProcessing' = TRUE
    /\ LET j == [NoJob EXCEPT !.status = "starting", !.progress = 10]
       IN  /\ job' = [job EXCEPT ![c] = j]
           /\ currentJob' = j
    /\ Publish(c, <<0, 10>>)
    /\ inflight' = [inflight EXCEPT ![c] = Append(@, "upload")]
    /\ promise' = [promise EXCEPT ![c] = "pending"]
    /\ dispatchTime' = [dispatchTime EXCEPT ![c] = now]
    /\ UNCHANGED <<envVars, body, now, hook3State, startTime, loops3, timers, issued,
                   observed>>

(* catch and finally of startAlignment (lines 278-289) *)
Catch1(c, message) ==
    /\ currentJob' = [NoJob EXCEPT !.status = "failed", !.progress = 0,
                                   !.error = message]
    /\ Publish(c, <<0>>)
    /\ isProcessing' = FALSE
    /\ promise' = [promise EXCEPT ![c] = "resolved"]

(* uploadFile settles; on success the dispatch request is sent (lines 55-107) *)
Upload1(c, outcome) ==
    /\ hook = 1
    /\ Awaiting(c, "upload")
    /\ body' = [body EXCEPT ![c] = IF outcome = "ok" THEN lyrics_text1(lyrics) ELSE @]
    /\ IF outcome = "ok"
       THEN /\ inflight' = [inflight EXCEPT ![c] = Append(Settle(@, "upload"), "dispatch")]
            /\ issued' = [issued EXCEPT ![c] = @ \cup {"dispatch"}]
            /\ UNCHANGED <<currentJob, isProcessing, promise, published>>
       ELSE /\ inflight' = [inflight EXCEPT ![c] = Settle(@, "upload")]
            /\ Catch1(c, outcome)
            /\ UNCHANGED issued
    /\ UNCHANGED <<envVars, now, hook3State, local12, local3, timers, observed>>

(* the test of the dispatch response: fetch resolved and response.ok       *)
(* (lines 109, 447, 770)                                                    *)
DispatchOkUnchecked(outcome) == outcome # "network_error"
DispatchOk(outcome) == outcome = "ok"

(* the dispatch request settles (lines 109-118, 214-223, 276, 287-289) *)
Dispatched1(c, outcome, d) ==
    /\ hook = 1
    /\ Awaiting(c, "dispatch")
    /\ CanArrive(d)
    /\ now' = now + d
    /\ inflight' = [inflight EXCEPT ![c] = Settle(@, "dispatch")]
    /\ IF DispatchOk(outcome)
       THEN /\ LET j == [job[c] EXCEPT !.status = "processing", !.progress = 30]
               IN  /\ job' = [job EXCEPT ![c] = j]
                   /\ currentJob' = j
            /\ Publish(c, <<30>>)
            /\ startTime' = [startTime EXCEPT ![c] = now']
            /\ timers' = [timers EXCEPT ![c] =
                    Append(@, [due |-> now' + 5000, callback |-> "pollForCompletion"])]
            /\ isProcessing' = FALSE
            /\ promise' = [promise EXCEPT ![c] = "resolved"]
       ELSE /\ Catch1(c, outcome)
            /\ UNCHANGED <<local12, timers>>
    /\ UNCHANGED <<envVars, body, hook3State, local3, issued, seen, selected, timeouts>>
    /\ Answered(c, "dispatch", outcome)

(* pollForCompletion starts: the timeout check, else the list request      *)
(* (lines 225-235)                                                         *)
Poll1(c) ==
    /\ hook = 1
    /\ TimerReady(c)
    /\ Head(timers[c]).callback = "pollForCompletion"
    /\ now' = Head(timers[c]).due
    /\ timers' = [timers EXCEPT ![c] = Tail(@)]
    /\ IF now' - startTime[c] > maxWaitTime1
       THEN /\ LET j == [job[c] EXCEPT !.status = "timeout"]
               IN  /\ job' = [job EXCEPT ![c] = j]
                   /\ currentJob' = j
            /\ Publish(c, <<job[c].progress>>)
            /\ timeouts' = [timeouts EXCEPT ![c] = @ + 1]
            /\ UNCHANGED <<inflight, issued>>
       ELSE /\ inflight' = [inflight EXCEPT ![c] = Append(@, "list")]
            /\ issued' = [issued EXCEPT ![c] = @ \cup {"list"}]
            /\ UNCHANGED <<job, currentJob, published, timeouts>>
    /\ UNCHANGED <<envVars, body, isProcessing, hook3State, promise, startTime, local3,
                   seen, selected, answered>>

(* relevantRun of pollForCompletion (lines 236-239) *)
relevantRun(c, workflows) ==
    Find(workflows, {run \in Elements(workflows) :
        /\ IsoGreater(run.created_at, startTime[c] - 60000)
        /\ run.status = "completed" \/ run.status = "in_progress"})

(* the conclusion tests of pollForCompletion (lines 248, 258) and its two  *)
(* return statements (lines 257, 263)                                     *)
Succeeded1(run) == run.conclusion = "success"

Failed1Typo(run) == ~Succeeded1(run) /\ run.conclusion = "failed"
Failed1(run) == ~Succeeded1(run) /\ run.conclusion = "failure"

Returns1Never(run) == FALSE
Returns1(run) == Succeeded1(run) \/ Failed1(run)

(* what a poll reads on the run it has selected *)
Observe(c, hit, run) ==
    /\ seen' = [seen EXCEPT ![c] =
                IF hit /\ run.conclusion # "null" THEN @ \cup {run.conclusion} ELSE @]
    /\ selected' = [selected EXCEPT ![c] = IF hit THEN @ \cup {run.id} ELSE @]

(* checkWorkflowStatus settles (lines 235-272) *)
Listed1(c, answer, d) ==
    /\ hook = 1
    /\ Awaiting(c, "list")
    /\ CanArrive(d)
    /\ now' = now + d
    /\ LET run == relevantRun(c, answer.runs)
           hit == answer.ok /\ run # NoRun
           shown == [job[c] EXCEPT !.progress =
                        IF run.status = "in_progress" THEN 70 ELSE 90]
           j == IF ~hit THEN job[c]
                ELSE IF Failed1(run)
                THEN [shown EXCEPT !.status = "failed",
                        !.error = "Processing failed. Please check your audio file and try again."]
                ELSE shown
           fetch == hit /\ Succeeded1(run)
           again == ~hit \/ ~Returns1(run)
       IN  /\ job' = [job EXCEPT ![c] = j]
           /\ currentJob' = IF hit THEN j ELSE currentJob
           /\ Publish(c, IF ~hit THEN <<>>
                         ELSE IF Failed1(run) THEN <<j.progress, j.progress>>
                         ELSE <<j.progress>>)
           /\ inflight' = [inflight EXCEPT ![c] =
                   IF fetch THEN Append(Settle(@, "list"), "artifacts")
                   ELSE Settle(@, "list")]
           /\ issued' = [issued EXCEPT ![c] = IF fetch THEN @ \cup {"artifacts"} ELSE @]
           /\ timers' = [timers EXCEPT ![c] =
                   IF again
                   THEN Append(@, [due |-> now' + pollInterval1,
                                   callback |-> "pollForCompletion"])
                   ELSE @]
           /\ Observe(c, hit, run)
    /\ UNCHANGED <<envVars, body, isProcessing, hook3State, promise, startTime, local3,
                   timeouts>>
    /\ Answered(c, "list", Outcome(answer.ok))

(* getWorkflowArtifacts settles (lines 250-257, 269-272) *)
Artifacts1(c, answer, d) ==
    /\ hook = 1
    /\ Awaiting(c, "artifacts")
    /\ CanArrive(d)
    /\ now' = now + d
    /\ inflight' = [inflight EXCEPT ![c] = Settle(@, "artifacts")]
    /\ IF answer.ok
       THEN /\ LET j == [job[c] EXCEPT !.status = "completed", !.progress = 100,
                        !.results = answer.artifacts, !.resultsSet = TRUE]
               IN  /\ job' = [job EXCEPT ![c] = j]
                   /\ currentJob' = j
            /\ Publish(c, <<100>>)
            /\ UNCHANGED timers
       ELSE /\ timers' = [timers EXCEPT ![c] = Append(@,
                    [due |-> now' + pollInterval1, callback |-> "pollForCompletion"])]
            /\ UNCHANGED <<job, currentJob, published>>
    /\ UNCHANGED <<envVars, body, isProcessing, hook3State, promise, startTime, local3,
                   issued, seen, selected, timeouts>>
    /\ Answered(c, "artifacts", ArtifactsOutcome(answer))

(* resetJob (lines 295-298) *)
resetJob ==
    /\ hook = 1
    /\ currentJob' = NoJob
    /\ isProcessing' = FALSE
    /\ UNCHANGED <<envVars, body, now, hook3State, promise, local12, local3, timers,
                   inflight, issued, published, observed>>

Next1 ==
    \/ \E c \in Calls : Start1(c)
    \/ \E c \in Calls, o \in {"ok", "File too large. Maximum size is 50MB.",
                                "Failed to read file"} : Upload1(c, o)
    \/ \E c \in Calls, o \in DispatchOutcomes, d \in Latencies : Dispatched1(c, o, d)
    \/ \E c \in Calls : Poll1(c)
    \/ \E c \in Calls, d \in Latencies :
            /\ hook = 1 /\ Awaiting(c, "list") /\ CanArrive(d)
            /\ \E a \in ListAnswers(now + d) : Listed1(c, a, d)
    \/ \E c \in Calls, d \in Latencies :
            /\ hook = 1 /\ Awaiting(c, "artifacts") /\ CanArrive(d)
            /\ \E a \in ArtifactAnswers : Artifacts1(c, a, d)
    \/ resetJob

-----------------------------------------------------------------------------
(* Hook 2 *)

(* catch of startAlignment: the failed job, then the error is rethrown      *)
(* (lines 650-662)                                                          *)
Catch2(c, message) ==
    /\ currentJob' = [NoJob EXCEPT !.status = "failed", !.progress = 0,
                                   !.error = message]
    /\ isProcessing' = FALSE
    /\ promise' = [promise EXCEPT ![c] = "rejected"]

(* startAlignment up to the first request: testConnection checks the token  *)
(* before it sends anything (lines 518-540, 402-405, 369-386)               *)
Start2(c) ==
    /\ hook = 2
    /\ StartOK(c)
    /\ job' = [job EXCEPT ![c] = [NoJob EXCEPT !.status = "starting", !.progress = 15]]
    /\ IF token
       THEN /\ isProcessing' = TRUE
            /\ currentJob' = job'[c]
            /\ promise' = [promise EXCEPT ![c] = "pending"]
            /\ Publish(c, <<0, 5, 15>>)
            /\ inflight' = [inflight EXCEPT ![c] = Append(@, "repo")]
            /\ issued' = [issued EXCEPT ![c] = @ \cup {"repo"}]
       ELSE /\ Catch2(c, "GitHub token not found. Please check VITE_GITHUB_TOKEN in Netlify environment variables.")
            /\ Publish(c, <<0, 5, 15, 0>>)
            /\ UNCHANGED <<inflight, issued>>
    /\ UNCHANGED <<envVars, body, now, hook3State, startTime, local3, timers, observed>>

(* the repository request of testConnection settles; on success the         *)
(* dispatch request is sent (lines 386-392, 402-445)                        *)
Tested2(c, outcome, d) ==
    /\ hook = 2
    /\ Awaiting(c, "repo")
    /\ body' = [body EXCEPT ![c] = IF outcome = "ok" THEN truncatedLyrics(lyrics) ELSE @]
    /\ CanArrive(d)
    /\ now' = now + d
    /\ IF outcome = "ok"
       THEN /\ inflight' = [inflight EXCEPT ![c] = Append(Settle(@, "repo"), "dispatch")]
            /\ issued' = [issued EXCEPT ![c] = @ \cup {"dispatch"}]
            /\ dispatchTime' = [dispatchTime EXCEPT ![c] = now']
            /\ UNCHANGED <<currentJob, isProcessing, promise, published>>
       ELSE /\ inflight' = [inflight EXCEPT ![c] = Settle(@, "repo")]
            /\ Catch2(c, IF outcome = "http_error" THEN "" ELSE outcome)
            /\ Publish(c, <<0>>)
            /\ UNCHANGED <<issued, dispatchTime>>
    /\ UNCHANGED <<envVars, hook3State, local12, loops3, timers, seen, selected, timeouts>>
    /\ Answered(c, "repo", outcome)

(* the dispatch request settles (lines 447-452, 541-552, 648) *)
Dispatched2(c, outcome, d) ==
    /\ hook = 2
    /\ Awaiting(c, "dispatch")
    /\ CanArrive(d)
    /\ now' = now + d
    /\ inflight' = [inflight EXCEPT ![c] = Settle(@, "dispatch")]
    /\ IF DispatchOk(outcome)
       THEN /\ LET j == [job[c] EXCEPT !.status = "processing", !.progress = 25]
               IN  /\ job' = [job EXCEPT ![c] = j]
                   /\ currentJob' = j
            /\ Publish(c, <<25>>)
            /\ startTime' = [startTime EXCEPT ![c] = now']
            /\ timers' = [timers EXCEPT ![c] =
                    Append(@, [due |-> now' + 5000, callback |-> "pollForCompletion"])]
            /\ promise' = [promise EXCEPT ![c] = "resolved"]
            /\ UNCHANGED isProcessing
       ELSE /\ Catch2(c, outcome)
            /\ Publish(c, <<0>>)
            /\ UNCHANGED <<local12, timers>>
    /\ UNCHANGED <<envVars, body, hook3State, local3, issued, seen, selected, timeouts>>
    /\ Answered(c, "dispatch", outcome)

(* pollForCompletion starts: the timeout check, else the list request      *)
(* (lines 554-570)                                                         *)
Poll2(c) ==
    /\ hook = 2
    /\ TimerReady(c)
    /\ Head(timers[c]).callback = "pollForCompletion"
    /\ now' = Head(timers[c]).due
    /\ timers' = [timers EXCEPT ![c] = Tail(@)]
    /\ LET elapsedTime == now' - startTime[c]
       IN
       IF elapsedTime > maxWaitTime2
       THEN /\ LET j == [job[c] EXCEPT !.status = "timeout", !.progress = 95]
               IN  /\ job' = [job EXCEPT ![c] = j]
                   /\ currentJob' = j
            /\ Publish(c, <<95>>)
            /\ isProcessing' = FALSE
            /\ timeouts' = [timeouts EXCEPT ![c] = @ + 1]
            /\ UNCHANGED <<inflight, issued>>
       ELSE /\ inflight' = [inflight EXCEPT ![c] = Append(@, "list")]
            /\ issued' = [issued EXCEPT ![c] = @ \cup {"list"}]
            /\ UNCHANGED <<job, currentJob, isProcessing, published, timeouts>>
    /\ UNCHANGED <<envVars, body, hook3State, promise, startTime, local3, seen, selected, answered>>

(* recentRun of pollForCompletion (lines 574-577) *)
recentRun(c, workflows) ==
    Find(workflows, {run \in Elements(workflows) :
        run.created_at >= startTime[c] - 60000})

(* the status and conclusion tests of pollForCompletion (lines 585-621) *)
InProgress2(run) == run.status = "in_progress"

Succeeded2(run) ==
    ~InProgress2(run) /\ run.status = "completed" /\ run.conclusion = "success"

Failed2(run) ==
    ~InProgress2(run) /\ run.status = "completed" /\ run.conclusion # "success"

(* getWorkflowRuns settles (lines 570-644) *)
Listed2(c, answer, d) ==
    /\ hook = 2
    /\ Awaiting(c, "list")
    /\ CanArrive(d)
    /\ now' = now + d
    /\ LET run == recentRun(c, answer.runs)
           hit == answer.ok /\ run # NoRun
           tracked == [job[c] EXCEPT !.workflowRunId = run.id]
           j == IF ~hit THEN job[c]
                ELSE IF InProgress2(run)
                THEN [tracked EXCEPT !.progress = Min(job[c].progress + 10, 80)]
                ELSE IF Succeeded2(run)
                THEN [tracked EXCEPT !.progress = 90]
                ELSE IF Failed2(run)
                THEN [tracked EXCEPT !.status = "failed",
                                     !.error = "GitHub Actions workflow failed"]
                ELSE tracked
           shows == answer.ok /\ (~hit \/ InProgress2(run) \/ Succeeded2(run) \/ Failed2(run))
           fetch == hit /\ Succeeded2(run)
           fails == hit /\ Failed2(run)
           again == ~fetch /\ ~fails
       IN  /\ job' = [job EXCEPT ![c] = j]
           /\ currentJob' = IF shows THEN j ELSE currentJob
           /\ Publish(c, IF shows THEN <<j.progress>> ELSE <<>>)
           /\ isProcessing' = IF fails THEN FALSE ELSE isProcessing
           /\ inflight' = [inflight EXCEPT ![c] =
                   IF fetch THEN Append(Settle(@, "list"), "artifacts")
                   ELSE Settle(@, "list")]
           /\ issued' = [issued EXCEPT ![c] = IF fetch THEN @ \cup {"artifacts"} ELSE @]
           /\ timers' = [timers EXCEPT ![c] =
                   IF again
                   THEN Append(@, [due |-> now' + pollInterval2,
                                   callback |-> "pollForCompletion"])
                   ELSE @]
           /\ Observe(c, hit, run)
    /\ UNCHANGED <<envVars, body, hook3State, promise, startTime, local3, timeouts>>
    /\ Answered(c, "list", Outcome(answer.ok))

(* getWorkflowArtifacts settles (lines 599-619) *)
Artifacts2(c, answer, d) ==
    /\ hook = 2
    /\ Awaiting(c, "artifacts")
    /\ CanArrive(d)
    /\ now' = now + d
    /\ inflight' = [inflight EXCEPT ![c] = Settle(@, "artifacts")]
    /\ LET done == [job[c] EXCEPT !.status = "completed", !.progress = 100]
           j == IF answer.ok
                THEN [done EXCEPT !.results = answer.artifacts, !.resultsSet = TRUE]
                ELSE done
       IN  /\ job' = [job EXCEPT ![c] = j]
           /\ currentJob' = j
    /\ Publish(c, <<100>>)
    /\ isProcessing' = FALSE
    /\ UNCHANGED <<envVars, body, hook3State, promise, startTime, local3, timers, issued,
                   seen, selected, timeouts>>
    /\ Answered(c, "artifacts", ArtifactsOutcome(answer))

(* reset (lines 668-672) *)
reset2 ==
    /\ hook = 2
    /\ currentJob' = NoJob
    /\ isProcessing' = FALSE
    /\ UNCHANGED <<envVars, body, now, hook3State, promise, local12, local3, timers,
                   inflight, issued, published, observed>>

(* result of the hook's return value (lines 684-689) *)
result2 ==
    IF currentJob.status = "completed"
    THEN [downloadUrl |-> currentJob.workflowRunId, artifacts |-> currentJob.results]
    ELSE [downloadUrl |-> 0, artifacts |-> <<>>]

Next2 ==
    \/ \E c \in Calls : Start2(c)
    \/ \E c \in Calls, o \in {"ok", "http_error", "network_error"}, d \in Latencies :
            Tested2(c, o, d)
    \/ \E c \in Calls, o \in DispatchOutcomes, d \in Latencies : Dispatched2(c, o, d)
    \/ \E c \in Calls : Poll2(c)
    \/ \E c \in Calls, d \in Latencies :
            /\ hook = 2 /\ Awaiting(c, "list") /\ CanArrive(d)
            /\ \E a \in ListAnswers(now + d) : Listed2(c, a, d)
    \/ \E c \in Calls, d \in Latencies :
            /\ hook = 2 /\ Awaiting(c, "artifacts") /\ CanArrive(d)
            /\ \E a \in ArtifactAnswers : Artifacts2(c, a, d)
    \/ reset2

-----------------------------------------------------------------------------
(* Hook 3 *)

ErrNoToken == "GitHub token is not configured"
ErrDispatch == "Failed to trigger workflow"
ErrNoRun == "Could not find the triggered workflow run. Please check GitHub Actions manually."
ErrTimeout == "Workflow did not complete within the expected time"
ErrConclusion == "Workflow failed with conclusion"

(* startAlignment up to the dispatch request (lines 731-768) *)
Start3(c) ==
    /\ hook = 3
    /\ StartOK(c)
    /\ body' = [body EXCEPT ![c] = IF token THEN lyrics3(lyrics) ELSE @]
    /\ progress' = 10
    /\ result' = NoResult
    /\ Publish(c, <<10>>)
    /\ IF ~token
       THEN /\ error' = ErrNoToken
            /\ isProcessing' = FALSE
            /\ promise' = [promise EXCEPT ![c] = "resolved"]
            /\ ended' = [ended EXCEPT ![c] = ErrNoToken]
            /\ UNCHANGED <<dispatchTime, inflight, issued>>
       ELSE /\ error' = "null"
            /\ isProcessing' = TRUE
            /\ promise' = [promise EXCEPT ![c] = "pending"]
            /\ dispatchTime' = [dispatchTime EXCEPT ![c] = now]
            /\ inflight' = [inflight EXCEPT ![c] = Append(@, "dispatch")]
            /\ issued' = [issued EXCEPT ![c] = @ \cup {"dispatch"}]
            /\ UNCHANGED ended
    /\ UNCHANGED <<envVars, now, currentJob, local12, workflowRun, attempts,
                   currentRun, pollAttempts, pollFailures, timers, observed>>

(* catch and finally of startAlignment (lines 938-943); message "none"      *)
(* means that nothing was thrown                                            *)
Catch3(c, message) ==
    /\ error' = IF message = "none" THEN error ELSE message
    /\ ended' = [ended EXCEPT ![c] = IF message = "none" THEN @ ELSE message]
    /\ isProcessing' = IF message = "none" THEN isProcessing ELSE FALSE
    /\ promise' = [promise EXCEPT ![c] = IF message = "none" THEN @ ELSE "resolved"]

(* what follows the status loop (lines 883-892): the message thrown, or     *)
(* "none" when the run completed with success                               *)
AfterLoopAnyConclusion(run) ==
    IF run.status # "completed" THEN ErrTimeout ELSE "none"
AfterLoop(run) ==
    IF run.status # "completed" THEN ErrTimeout
    ELSE IF run.conclusion # "success" THEN ErrConclusion
    ELSE "none"

(* the wait that opens an iteration of the search loop (lines 787-791) *)
searchWaitLong(attempt) == 60000
searchWait(attempt) == IF attempt = 1 THEN 10000 ELSE 5000

(* the dispatch request settles; the first wait of the search loop starts   *)
(* (lines 770-789)                                                          *)
Dispatched3(c, outcome, d) ==
    /\ hook = 3
    /\ Awaiting(c, "dispatch")
    /\ CanArrive(d)
    /\ now' = now + d
    /\ inflight' = [inflight EXCEPT ![c] = Settle(@, "dispatch")]
    /\ IF DispatchOk(outcome)
       THEN /\ progress' = 25
            /\ Publish(c, <<25>>)
            /\ attempts' = [attempts EXCEPT ![c] = 1]
            /\ timers' = [timers EXCEPT ![c] =
                    Append(@, [due |-> now' + searchWait(1), callback |-> "findRun"])]
            /\ Catch3(c, "none")
       ELSE /\ Catch3(c, IF outcome = "http_error" THEN ErrDispatch ELSE outcome)
            /\ UNCHANGED <<progress, published, attempts, timers>>
    /\ UNCHANGED <<envVars, body, currentJob, result, local12, dispatchTime, workflowRun,
                   currentRun, pollAttempts, pollFailures, issued, seen, selected, timeouts>>
    /\ Answered(c, "dispatch", outcome)

(* a wait of one of the two loops is over: the loop's request is sent       *)
(* (lines 787-804, 853-864)                                                 *)
Wake3(c) ==
    /\ hook = 3
    /\ TimerReady(c)
    /\ now' = Head(timers[c]).due
    /\ timers' = [timers EXCEPT ![c] = Tail(@)]
    /\ LET kind == IF Head(timers[c]).callback = "findRun" THEN "list" ELSE "run"
       IN  /\ inflight' = [inflight EXCEPT ![c] = Append(@, kind)]
           /\ issued' = [issued EXCEPT ![c] = @ \cup {kind}]
    /\ UNCHANGED <<envVars, body, currentJob, isProcessing, hook3State, promise, local12,
                   local3, published, observed>>

(* candidateRuns of the search loop (lines 811-821) *)
candidateRunsStrict(c, workflow_runs) ==
    SelectSeq(workflow_runs, LAMBDA run :
        LET timeDiff == run.created_at - dispatchTime[c]
            isRecentEnough == timeDiff > -5000 /\ timeDiff < 30000
        IN  isRecentEnough)
candidateRuns(c, workflow_runs) ==
    SelectSeq(workflow_runs, LAMBDA run :
        LET timeDiff == run.created_at - dispatchTime[c]
            isRecentEnough == timeDiff >= -5000 /\ timeDiff <= 30000
        IN  isRecentEnough)

(* the list request of the search loop settles (lines 806-892) *)
Listed3(c, answer, d) ==
    /\ hook = 3
    /\ Awaiting(c, "list")
    /\ CanArrive(d)
    /\ now' = now + d
    /\ LET cand == candidateRuns(c, answer.runs)
           found == answer.kind = "ok" /\ cand # <<>>
           run == IF found THEN cand[1] ELSE NoRun
           again == ~found /\ attempts[c] < maxAttempts
           poll == found /\ run.status # "completed" /\ 0 < maxPollAttempts
           thrown == IF found
                     THEN IF poll THEN "none" ELSE AfterLoop(run)
                     ELSE IF again THEN "none" ELSE ErrNoRun
           fetch == found /\ ~poll /\ thrown = "none"
           pubs == (IF ~found /\ answer.kind # "network_error"
                    THEN <<25 + (attempts[c] * 2)>> ELSE <<>>)
                   \o (IF found THEN <<50>> ELSE <<>>)
                   \o (IF fetch THEN <<95>> ELSE <<>>)
       IN  /\ progress' = IF pubs = <<>> THEN progress ELSE Last(pubs)
           /\ Publish(c, pubs)
           /\ workflowRun' = [workflowRun EXCEPT ![c] = run.id]
           /\ currentRun' = [currentRun EXCEPT ![c] = IF found THEN run ELSE @]
           /\ attempts' = [attempts EXCEPT ![c] = IF again THEN @ + 1 ELSE @]
           /\ pollAttempts' = [pollAttempts EXCEPT ![c] = IF poll THEN 1 ELSE @]
           /\ timers' = [timers EXCEPT ![c] =
                   IF again
                   THEN Append(@, [due |-> now' + searchWait(attempts[c] + 1),
                                   callback |-> "findRun"])
                   ELSE IF poll THEN Append(@, [due |-> now' + 5000, callback |-> "pollRun"])
                   ELSE @]
           /\ inflight' = [inflight EXCEPT ![c] =
                   IF fetch THEN Append(Settle(@, "list"), "artifacts")
                   ELSE Settle(@, "list")]
           /\ issued' = [issued EXCEPT ![c] = IF fetch THEN @ \cup {"artifacts"} ELSE @]
           /\ Observe(c, found, run)
           /\ Catch3(c, thrown)
    /\ UNCHANGED <<envVars, body, currentJob, result, local12, dispatchTime, pollFailures,
                   timeouts>>
    /\ AnsweredList(c, answer)

(* the status request of the poll loop settles (lines 866-892) *)
Polled3(c, answer, d) ==
    /\ hook = 3
    /\ Awaiting(c, "run")
    /\ CanArrive(d)
    /\ now' = now + d
    /\ answer.kind # "ok" => pollFailures[c] < MaxPollFailures
    /\ pollFailures' = [pollFailures EXCEPT ![c] = IF answer.kind = "ok" THEN @ ELSE @ + 1]
    /\ LET run == IF answer.kind = "ok" THEN answer.run ELSE currentRun[c]
           pubs == IF answer.kind = "ok" /\ run.status = "queued"
                   THEN <<50 + Min(pollAttempts[c] * 2, 10)>>
                   ELSE IF answer.kind = "ok" /\ run.status = "in_progress"
                   THEN <<60 + Min(pollAttempts[c] * 2, 30)>>
                   ELSE <<>>
           again == run.status # "completed" /\ pollAttempts[c] < maxPollAttempts
           thrown == IF again THEN "none" ELSE AfterLoop(run)
           fetch == ~again /\ thrown = "none"
           all == pubs \o (IF fetch THEN <<95>> ELSE <<>>)
       IN  /\ progress' = IF all = <<>> THEN progress ELSE Last(all)
           /\ Publish(c, all)
           /\ currentRun' = [currentRun EXCEPT ![c] = run]
           /\ pollAttempts' = [pollAttempts EXCEPT ![c] = IF again THEN @ + 1 ELSE @]
           /\ timers' = [timers EXCEPT ![c] =
                   IF again THEN Append(@, [due |-> now' + 5000, callback |-> "pollRun"])
                   ELSE @]
           /\ inflight' = [inflight EXCEPT ![c] =
                   IF fetch THEN Append(Settle(@, "run"), "artifacts")
                   ELSE Settle(@, "run")]
           /\ issued' = [issued EXCEPT ![c] = IF fetch THEN @ \cup {"artifacts"} ELSE @]
           /\ Observe(c, answer.kind = "ok", run)
           /\ Catch3(c, thrown)
    /\ UNCHANGED <<envVars, body, currentJob, result, local12, dispatchTime, workflowRun,
                   attempts, timeouts>>
    /\ Answered(c, "run", answer.kind)

(* a.name.includes('lrc') || a.name.includes('lyrics') over the names used *)
NamesLrc(name) == name = "lrc_output"

(* lrcArtifact (lines 911-913) *)
lrcArtifact(artifacts) ==
    IF \E i \in 1..Len(artifacts) : NamesLrc(artifacts[i].name)
    THEN artifacts[CHOOSE i \in 1..Len(artifacts) :
            /\ NamesLrc(artifacts[i].name)
            /\ \A j \in 1..(i - 1) : ~NamesLrc(artifacts[j].name)]
    ELSE artifacts[1]

(* the result set after the artifacts request (lines 906-935): the one    *)
(* built from the chosen artifact, or the fallback of the catch           *)
Result3NoFallback(answer) ==
    IF answer.ok /\ Len(answer.artifacts) > 0
    THEN [lrcContent |-> "Demo LRC file",
          downloadUrl |-> lrcArtifact(answer.artifacts).archive_download_url]
    ELSE NoResult
Result3(answer) ==
    IF answer.ok /\ Len(answer.artifacts) > 0
    THEN [lrcContent |-> "Demo LRC file",
          downloadUrl |-> lrcArtifact(answer.artifacts).archive_download_url]
    ELSE [lrcContent |-> "Alignment completed", downloadUrl |-> "#"]

(* the artifacts request settles (lines 906-943) *)
Artifacts3(c, answer, d) ==
    /\ hook = 3
    /\ Awaiting(c, "artifacts")
    /\ CanArrive(d)
    /\ now' = now + d
    /\ inflight' = [inflight EXCEPT ![c] = Settle(@, "artifacts")]
    /\ result' = Result3(answer)
    /\ progress' = 100
    /\ Publish(c, <<100>>)
    /\ isProcessing' = FALSE
    /\ promise' = [promise EXCEPT ![c] = "resolved"]
    /\ ended' = [ended EXCEPT ![c] = "result"]
    /\ UNCHANGED <<envVars, body, currentJob, error, local12, dispatchTime, workflowRun,
                   attempts, currentRun, pollAttempts, pollFailures, timers, issued,
                   seen, selected, timeouts>>
    /\ Answered(c, "artifacts", ArtifactsOutcome(answer))

(* reset (lines 724-729) *)
reset3 ==
    /\ hook = 3
    /\ progress' = 0
    /\ error' = "null"
    /\ result' = NoResult
    /\ isProcessing' = FALSE
    /\ UNCHANGED <<envVars, body, now, currentJob, promise, local12, local3, timers,
                   inflight, issued, published, observed>>

Next3 ==
    \/ \E c \in Calls : Start3(c)
    \/ \E c \in Calls, o \in DispatchOutcomes, d \in Latencies : Dispatched3(c, o, d)
    \/ \E c \in Calls : Wake3(c)
    \/ \E c \in Calls, d \in Latencies :
            /\ hook = 3 /\ Awaiting(c, "list") /\ CanArrive(d)
            /\ \E a \in ListAnswers3(now + d) : Listed3(c, a, d)
    \/ \E c \in Calls, d \in Latencies :
            /\ hook = 3 /\ Awaiting(c, "run") /\ CanArrive(d)
            /\ \E a \in RunAnswers(currentRun[c].id) : Polled3(c, a, d)
    \/ \E c \in Calls, d \in Latencies :
            /\ hook = 3 /\ Awaiting(c, "artifacts") /\ CanArrive(d)
            /\ \E a \in ArtifactAnswers : Artifacts3(c, a, d)
    \/ reset3

Next == Next1 \/ Next2 \/ Next3

Spec == Init /\ [][Next]_vars

SpecWindow == InitWindow /\ [][Next3]_vars

-----------------------------------------------------------------------------
(* Properties *)

Monotone(s) == \A i, j \in 1..Len(s) : i <= j => s[i] <= s[j]

InRange(s) == \A i \in 1..Len(s) : s[i] >= 0 /\ s[i] <= 100

LastPublished(c) == IF pubNow[c] = <<>> THEN <<>> ELSE <<Last(pubNow[c])>>

(* a block of call c has published: with what c published last before it,  *)
(* the values are non-decreasing and within 0..100                         *)
PublishedInOrder(c) ==
    pubNow'[c] # pubNow[c] =>
        /\ Monotone(LastPublished(c) \o pubNow'[c])
        /\ InRange(pubNow'[c])

StartStep == \E c \in Calls : promise[c] = "none" /\ promise'[c] # "none"

ResetStep == resetJob \/ reset2 \/ reset3

Settled(c) == promise[c] \in {"resolved", "rejected"}

Finished(c) == Settled(c) /\ timers[c] = <<>> /\ inflight[c] = <<>>

Completed(c) == IF hook = 3 THEN ended[c] = "result" ELSE job[c].status = "completed"

(* C1: in hooks 1 and 2 the progress values that one call of startAlignment  *)
(* passes to setCurrentJob never decrease and stay within 0..100.           *)
C1_ProgressNonDecreasing ==
    [][(hook \in {1, 2}) => (\A c \in Calls : PublishedInOrder(c))]_vars

(* C2: in hook 3 the values that one call of startAlignment passes to        *)
(* setProgress after its initial reset never decrease and stay within       *)
(* 0..100.                                                                  *)
C2_SetProgressNonDecreasing ==
    [][(hook = 3) => (\A c \in Calls : PublishedInOrder(c))]_vars

(* C3: a call publishes progress 100 only after one of its polls has read    *)
(* conclusion success on the run it tracks; a call that ended failed, timed *)
(* out or with an error has never published 100.                            *)
C3_HundredOnlyAfterSuccess ==
    /\ \A c \in Calls :
        /\ pub100[c] => "success" \in seen[c]
        /\ hook \in {1, 2} /\ job[c].status \in {"starting", "failed", "timeout"}
                => ~pub100[c]
        /\ hook = 3 /\ ended[c] \notin {"no", "result"} => ~pub100[c]
    /\ currentJob.progress = 100 \/ progress = 100
            => \E c \in Calls : "success" \in seen[c]

C3_Witness ==
    /\ hook = 3
    /\ progress = 100
    /\ \E c \in Calls : pub100[c] /\ pollAttempts[c] > 0

(* C4: a call that reaches completed has read conclusion success and         *)
(* exposes an artifact list (hook 3: a result); a call that has read        *)
(* conclusion failure on its run is failed and is never completed.          *)
C4_CompletedIffSuccess ==
    /\ [](\A c \in Calls :
            /\ Completed(c) => "success" \in seen[c]
            /\ hook = 1 /\ Completed(c) => job[c].resultsSet
            /\ "failure" \in seen[c] =>
                /\ ~Completed(c)
                /\ IF hook = 3 THEN ended[c] = ErrConclusion
                   ELSE job[c].status = "failed")
    /\ [][(\A c \in Calls : Completed(c)' /\ ~Completed(c) =>
            IF hook = 3 THEN result' # NoResult
            ELSE /\ currentJob' = job'[c]
                 /\ result2' = [downloadUrl |-> job'[c].workflowRunId,
                                artifacts |-> job'[c].results])]_vars

C4_Witness ==
    /\ hook = 1
    /\ \E c \in Calls :
        job[c].status = "completed" /\ job[c].resultsSet /\ job[c].results = <<>>

C6_FailedDistinctFromTimeout ==
    \A c \in Calls :
        Finished(c) /\ seen[c] \cap {"failure", "cancelled"} # {} =>
            IF hook = 3 THEN ended[c] \notin {ErrTimeout, ErrNoRun}
            ELSE job[c].status # "timeout"

Terminal ==
    IF hook = 3 THEN error # "null" \/ result # NoResult
    ELSE currentJob.status \in {"completed", "failed", "timeout"}

Exposed ==
    IF hook = 3 THEN <<progress, error, result>>
    ELSE <<currentJob.status, currentJob.progress, currentJob.error,
           currentJob.results, currentJob.resultsSet>>

(* a step of call c: one of its timers fires, one of its requests is        *)
(* answered, or it returns                                                  *)
StepOf(c) ==
    \/ timers'[c] # timers[c]
    \/ inflight'[c] # inflight[c]
    \/ promise'[c] # promise[c]

(* call c has a poll timer pending or a network request in flight           *)
MidPoll(c) ==
    \/ timers[c] # <<>>
    \/ inflight[c] # <<>> /\ inflight[c] # <<"upload">>

(* c is the only call made so far, or a later call has been made since      *)
OnlyOrEarlier(c) ==
    \/ \A b \in Calls : b # c => promise[b] = "none"
    \/ \E b \in Calls : b > c /\ promise[b] # "none"

(* C7: once the hook's state is completed, failed or timeout, no timer and   *)
(* no answered request of the call that owns the state or of an earlier     *)
(* call changes status, progress, error or results; only reset or a new     *)
(* startAlignment does.                                                     *)
C7_TerminalSticky ==
    [][Terminal /\ ~ResetStep /\ ~StartStep
            /\ (\E c \in Calls : MidPoll(c) /\ StepOf(c) /\ OnlyOrEarlier(c))
        => Exposed' = Exposed]_vars

ResetValue ==
    /\ ~isProcessing
    /\ IF hook = 3 THEN progress = 0 /\ error = "null" /\ result = NoResult
       ELSE currentJob = NoJob

(* C8: after a reset made while a call has a timer pending or a request in   *)
(* flight, that call's timer or answer leaves the hook state at its reset   *)
(* value (no job, progress 0, isProcessing false) and sends no request.     *)
C8_ResetHolds ==
    [][ResetValue /\ ~StartStep /\ (\E c \in Calls : MidPoll(c) /\ StepOf(c))
        => ResetValue' /\ issued' = issued]_vars

(* C9: a call never has more than one poll timer pending or request in       *)
(* flight, taken together.                                                  *)
C9_NoOverlap ==
    \A c \in Calls : Len(timers[c]) + Len(inflight[c]) <= 1

C9_Witness ==
    \E c \in Calls :
        /\ {"list", "artifacts"} \subseteq issued[c]
        /\ Len(timers[c]) = 1
        /\ inflight[c] = <<>>

(* C10: without the token no request is ever sent, and a call of            *)
(* startAlignment returns with a configuration error in the hook state.     *)
C10_NoRequestWithoutToken ==
    /\ [](~token => \A c \in Calls : issued[c] = {})
    /\ [][~token => (\A c \in Calls : Settled(c)' /\ ~Settled(c) =>
            IF hook = 3 THEN error' = ErrNoToken
            ELSE currentJob'.status = "failed" /\ currentJob'.error # "undefined")]_vars

(* the dispatch request of call c was answered last, with a non-2xx status *)
DispatchRejected(c) == answered[c].kind = "dispatch" /\ answered[c].outcome = "http_error"

(* C11: a call whose dispatch request is answered with a non-2xx status     *)
(* ends failed with an error message in the hook state at that answer, has  *)
(* no timer, and sends no list, run or artifact request.                    *)
C11_DispatchRejectedFails ==
    /\ [](\A c \in Calls : DispatchRejected(c) =>
            /\ Settled(c)
            /\ timers[c] = <<>> /\ inflight[c] = <<>>
            /\ issued[c] \cap {"list", "run", "artifacts"} = {}
            /\ hook = 3 => ended[c] = ErrDispatch)
    /\ [][(\A c \in Calls : DispatchRejected(c)' /\ ~DispatchRejected(c) =>
            /\ ~isProcessing'
            /\ IF hook = 3 THEN error' = ErrDispatch
               ELSE currentJob'.status = "failed" /\ currentJob'.error # "undefined")]_vars

C11_Witness ==
    /\ hook = 2
    /\ currentJob.status = "failed"
    /\ \E c \in Calls : DispatchRejected(c) /\ "repo" \in issued[c]

(* the artifacts request of call c is answered in this step, with an error *)
ArtifactsFail(c) ==
    /\ Awaiting(c, "artifacts")
    /\ inflight'[c] # inflight[c]
    /\ answered'[c].kind = "artifacts" /\ answered'[c].outcome = "error"

(* C12: when the artifacts request of a call that has read conclusion       *)
(* success fails, the call ends completed with progress 100 and no error,   *)
(* not failed or timeout.                                                   *)
C12_ArtifactFailureKeepsCompleted ==
    [][(\A c \in Calls : ArtifactsFail(c) =>
            /\ "success" \in seen[c]
            /\ Finished(c)'
            /\ IF hook = 3
               THEN ended'[c] = "result" /\ progress' = 100 /\ result' # NoResult
               ELSE /\ job'[c].status = "completed" /\ job'[c].progress = 100
                    /\ job'[c].error = "undefined"
                    /\ currentJob' = job'[c])]_vars

(* created_at of run lies in [T - 5 s, T + 30 s] around call c's dispatch *)
InWindow(c, run) ==
    /\ run.created_at >= dispatchTime[c] - 5000
    /\ run.created_at <= dispatchTime[c] + 30000

C14_TimerHooksSelectInWindow ==
    hook \in {1, 2} => \A c \in Calls : \A id \in selected[c] :
        /\ created[id] >= dispatchTime[c] - 5000
        /\ created[id] <= dispatchTime[c] + 30000

(* C15: all polls of one call select the same run: once a poll has selected *)
(* a run id, no later poll of the call selects another.                     *)
C15_OneRunPerDispatch ==
    \A c \in Calls : Cardinality(selected[c]) <= 1

(* the runs of the list answer that call c received last which lie in the   *)
(* window and were not created before the dispatch                          *)
NotBeforeDispatch(c) ==
    {id \in answered[c].runs :
        /\ created[id] >= dispatchTime[c]
        /\ created[id] <= dispatchTime[c] + 30000}

(* C16: in hook 3, when the list answer that made a call select its run     *)
(* holds runs in the window that were not created before the dispatch, the  *)
(* selected run is the earliest created of them, whatever the list's order. *)
C16_EarliestCandidateSelected ==
    hook = 3 => \A c \in Calls :
        answered[c].kind = "list" /\ workflowRun[c] # 0 /\ NotBeforeDispatch(c) # {} =>
            /\ workflowRun[c] \in NotBeforeDispatch(c)
            /\ \A id \in NotBeforeDispatch(c) : created[workflowRun[c]] <= created[id]

(* call c sends a list request in this step *)
SendsList(c) == Awaiting(c, "list")' /\ ~Awaiting(c, "list")

(* call c ends in this step because the search found no run *)
EndsNoRun(c) == ended'[c] = ErrNoRun /\ ended[c] # ErrNoRun

(* C17: in hook 3 a call sends one list request per attempt and at most 12; *)
(* when none finds a run the call ends with the error set, isProcessing     *)
(* false and no result of its own, its promise is resolved, and it has sent *)
(* no run or artifact request.                                              *)
C17_CorrelationGivesUp ==
    /\ [](hook = 3 => \A c \in Calls :
            /\ attempts[c] <= 12
            /\ ended[c] = ErrNoRun =>
                /\ attempts[c] = 12
                /\ workflowRun[c] = 0
                /\ promise[c] = "resolved"
                /\ timers[c] = <<>> /\ inflight[c] = <<>>
                /\ issued[c] \cap {"run", "artifacts"} = {})
    /\ [][(hook = 3) => (\A c \in Calls :
            /\ SendsList(c) => attempts[c] \in 1..12
            /\ Awaiting(c, "list") /\ ~Awaiting(c, "list")' /\ timers'[c] # <<>>
                    /\ workflowRun'[c] = 0 =>
                attempts'[c] = attempts[c] + 1
            /\ EndsNoRun(c) =>
                /\ error' = ErrNoRun
                /\ ~isProcessing'
                /\ result' = result
                /\ (\A b \in Calls : b # c => promise[b] = "none") => result' = NoResult)]_vars

C17_Witness ==
    /\ hook = 3
    /\ error = ErrNoRun
    /\ \E c \in Calls :
        /\ ended[c] = ErrNoRun
        /\ answered[c].kind = "list" /\ answered[c].outcome = "network_error"

(* a list or status request of call c is answered with a failure in this step *)
PollFails(c, kind) ==
    /\ Awaiting(c, kind)
    /\ Len(inflight'[c]) < Len(inflight[c])
    /\ answered'[c].kind = kind
    /\ answered'[c].outcome # "ok"

(* the timer a step of call c adds, if it adds exactly one *)
Scheduled(c, callback, delay) ==
    timers'[c] = Append(timers[c], [due |-> now' + delay, callback |-> callback])

(* C18: a failed list or status request leaves the job status as it was,    *)
(* schedules the next poll, and leaves the budget as it was: startTime in   *)
(* the timer hooks, and in hook 3 the attempt counter advances by one, the  *)
(* loop going on while the counter is below its maximum.                    *)
C18_FailedPollGoesOn ==
    [][\A c \in Calls :
        /\ hook \in {1, 2} /\ PollFails(c, "list") =>
            /\ job'[c] = job[c]
            /\ currentJob' = currentJob
            /\ isProcessing' = isProcessing
            /\ startTime'[c] = startTime[c]
            /\ timeouts'[c] = timeouts[c]
            /\ Scheduled(c, "pollForCompletion", 10000)
        /\ hook = 3 /\ PollFails(c, "list") /\ attempts[c] < 12 =>
            /\ attempts'[c] = attempts[c] + 1
            /\ ended'[c] = ended[c]
            /\ isProcessing' = isProcessing /\ error' = error
            /\ Scheduled(c, "findRun", 5000)
        /\ hook = 3 /\ PollFails(c, "run") /\ pollAttempts[c] < 60 =>
            /\ pollAttempts'[c] = pollAttempts[c] + 1
            /\ currentRun'[c] = currentRun[c]
            /\ ended'[c] = ended[c]
            /\ isProcessing' = isProcessing /\ error' = error
            /\ Scheduled(c, "pollRun", 5000)
        /\ hook = 3 /\ PollFails(c, "run") /\ pollAttempts[c] >= 60 =>
            ended'[c] = ErrTimeout]_vars

C18_Witness ==
    /\ hook = 3
    /\ \E c \in Calls :
        /\ pollAttempts[c] = 60
        /\ pollFailures[c] > 0
        /\ answered[c].kind = "run" /\ answered[c].outcome # "ok"
        /\ timers[c] # <<>>

(* call c sends a list or status request in this step *)
SendsPoll(c) ==
    \E kind \in {"list", "run"} : inflight'[c] = Append(inflight[c], kind)

(* the instant the hook measures from: startTime in the timer hooks (lines  *)
(* 221, 550), dispatchTime in hook 3 (line 745)                             *)
Since(c) == IF hook = 3 THEN dispatchTime[c] ELSE startTime[c]

(* the longest a job of the hook waits: maxWaitTime of the timer hooks, and *)
(* in hook 3 the waits of 12 searches and 60 polls                          *)
MaxWait ==
    IF hook = 1 THEN maxWaitTime1
    ELSE IF hook = 2 THEN maxWaitTime2
    ELSE 10000 + ((maxAttempts - 1) * 5000) + (maxPollAttempts * 5000)

(* C19: the timeout is a ceiling on the time elapsed since the dispatch: in *)
(* every hook a call sends no further list or status request once more than *)
(* the maximum wait has elapsed, however long the network calls took.       *)
C19_WallClockCeiling ==
    [][\A c \in Calls : SendsPoll(c) => now' - Since(c) <= MaxWait]_vars

(* the same ceiling in the timer hooks alone *)
C19_TimerHooksCeiling ==
    [][(hook \in {1, 2}) => (\A c \in Calls : SendsPoll(c) => now' - Since(c) <= MaxWait)]_vars

(* a poll of call c reads, for the first time, an unsuccessful conclusion on *)
(* the run it has selected                                                   *)
ObservesUnsuccessful(c) == (seen'[c] \ seen[c]) \cap {"failure", "cancelled"} # {}

(* call c ends in failed in this step, with nothing left pending *)
EndsFailed(c) ==
    /\ timers'[c] = <<>> /\ inflight'[c] = <<>>
    /\ IF hook = 3
       THEN ended'[c] = ErrConclusion /\ error' = ErrConclusion /\ ~isProcessing'
       ELSE job'[c].status = "failed" /\ currentJob' = job'[c]

(* C20: in every hook the poll that observes the run completed with failure *)
(* or cancelled ends the job in failed, and no further poll is scheduled.   *)
C20_UnsuccessfulEndsFailed ==
    [][\A c \in Calls : ObservesUnsuccessful(c) => EndsFailed(c)]_vars

(* the same in hooks 2 and 3 alone *)
C20_LaterHooksEndFailed ==
    [][(hook \in {2, 3}) => (\A c \in Calls : ObservesUnsuccessful(c) => EndsFailed(c))]_vars

(* the artifacts request of call c is answered with an empty list in this step *)
ArtifactsEmpty(c) ==
    /\ Awaiting(c, "artifacts")
    /\ inflight'[c] # inflight[c]
    /\ answered'[c].kind = "artifacts"
    /\ answered'[c].outcome = "empty"

(* no other call of startAlignment has been made on the hook *)
OnlyCall(c) == \A b \in Calls : b # c => promise[b] = "none"

(* C21: when the run concluded with success and the artifact listing        *)
(* answers with an empty list, the job ends completed at that step, with    *)
(* progress 100, a result and no error.                                     *)
C21_EmptyArtifactsCompletes ==
    [][\A c \in Calls : ArtifactsEmpty(c) =>
        /\ "success" \in seen[c]
        /\ Finished(c)'
        /\ ~isProcessing'
        /\ IF hook = 3
           THEN /\ ended'[c] = "result"
                /\ progress' = 100
                /\ result' # NoResult
                /\ error' = error
                /\ OnlyCall(c) => error' = "null"
           ELSE /\ job'[c].status = "completed"
                /\ job'[c].progress = 100
                /\ job'[c].error = "undefined"
                /\ job'[c].resultsSet /\ job'[c].results = <<>>
                /\ currentJob' = job'[c]]_vars

C21_Witness ==
    /\ hook = 3
    /\ progress = 100
    /\ result = [lrcContent |-> "Alignment completed", downloadUrl |-> "#"]
    /\ \E c \in Calls :
        /\ ended[c] = "result"
        /\ answered[c].kind = "artifacts" /\ answered[c].outcome = "empty"

-----------------------------------------------------------------------------
(* One job whose timers fire and whose network calls are answered           *)

(* a pending timer of a call fires *)
TimerFires == \E c \in Calls : Poll1(c) \/ Poll2(c) \/ Wake3(c)

(* a pending request of a call resolves or rejects, with any answer *)
RequestSettles ==
    \E c \in Calls :
        \/ \E o \in {"ok", "File too large. Maximum size is 50MB.",
                     "Failed to read file"} : Upload1(c, o)
        \/ \E o \in {"ok", "http_error", "network_error"} : Tested2(c, o, 0)
        \/ \E o \in DispatchOutcomes :
                Dispatched1(c, o, 0) \/ Dispatched2(c, o, 0) \/ Dispatched3(c, o, 0)
        \/ /\ Awaiting(c, "list") /\ CanArrive(0)
           /\ \/ \E a \in ListAnswers(now) : Listed1(c, a, 0) \/ Listed2(c, a, 0)
              \/ \E a \in ListAnswers3(now) : Listed3(c, a, 0)
        \/ /\ Awaiting(c, "run") /\ CanArrive(0)
           /\ \E a \in RunAnswers(currentRun[c].id) : Polled3(c, a, 0)
        \/ /\ Awaiting(c, "artifacts") /\ CanArrive(0)
           /\ \E a \in ArtifactAnswers :
                Artifacts1(c, a, 0) \/ Artifacts2(c, a, 0) \/ Artifacts3(c, a, 0)

(* the caller starts the first job, or resets the hook *)
CallerActs == Start1(1) \/ Start2(1) \/ Start3(1) \/ resetJob \/ reset2 \/ reset3

NextLive == CallerActs \/ TimerFires \/ RequestSettles

SpecLive ==
    Init /\ [][NextLive]_vars /\ WF_vars(TimerFires) /\ WF_vars(RequestSettles)

(* C22: a job started with startAlignment eventually reaches a terminal     *)
(* outcome with nothing of it left pending, and isProcessing is false then, *)
(* provided timers fire and every network call is answered.                 *)
C22_EveryJobEnds ==
    \A c \in Calls :
        (promise[c] # "none" /\ ~Finished(c))
            ~> (Finished(c) /\ Terminal /\ ~isProcessing)

C22_Witness ==
    /\ hook = 1
    /\ Finished(1)
    /\ currentJob.status = "timeout"
    /\ ~isProcessing
    /\ "cancelled" \in seen[1]

-----------------------------------------------------------------------------
(* The example run: the dispatch at t = 0 succeeds, the list endpoint shows *)
(* one run, in_progress, and from t = 40 s that run is completed with       *)
(* success and has the one artifact lrc_output                              *)

MaxExampleShift == 8

(* the run is created at t = 12 s, or up to MaxExampleShift seconds later *)
ExampleCreated == {12000 + (1000 * k) : k \in 0..MaxExampleShift}

ExampleRun(t) ==
    [id |-> 1, created_at |-> CreatedAt(1),
     status |-> IF t < 40000 THEN "in_progress" ELSE "completed",
     conclusion |-> IF t < 40000 THEN "null" ELSE "success"]

ExampleList(t) == IF CreatedAt(1) <= t THEN <<ExampleRun(t)>> ELSE <<>>

ExampleArtifacts ==
    <<[name |-> "lrc_output", archive_download_url |-> "url_lrc_output"]>>

InitExample ==
    /\ hook = 3
    /\ token = TRUE
    /\ \E t \in ExampleCreated : created = [id \in RunIds |-> IF id = 1 THEN t ELSE 45000]
    /\ lyrics = Text(1)
    /\ Mounted

NextExample ==
    \/ Start3(1)
    \/ Dispatched3(1, "ok", 0)
    \/ Wake3(1)
    \/ Listed3(1, [kind |-> "ok", runs |-> ExampleList(now)], 0)
    \/ Polled3(1, [kind |-> "ok", run |-> ExampleRun(now)], 0)
    \/ Artifacts3(1, [ok |-> TRUE, artifacts |-> ExampleArtifacts], 0)

SpecExample == InitExample /\ [][NextExample]_vars

(* C23: in the example run hook 3 selects that run, polls it, and ends      *)
(* completed with progress 100, the download reference of lrc_output and no *)
(* error; and while the job runs it is neither failed nor has a result.     *)
C23_ExampleCompletes ==
    /\ workflowRun[1] \in {0, 1}
    /\ ended[1] \in {"no", "result"}
    /\ error = "null"
    /\ Finished(1) =>
        /\ workflowRun[1] = 1
        /\ pollAttempts[1] >= 1
        /\ "run" \in issued[1]
        /\ ended[1] = "result"
        /\ progress = 100
        /\ result.downloadUrl = "url_lrc_output"
        /\ ~isProcessing

C23_Witness ==
    /\ created[1] = 12000
    /\ Finished(1)
    /\ now = 40000
    /\ pollAttempts[1] = 5
    /\ attempts[1] = 2
    /\ progress = 100
    /\ result.downloadUrl = "url_lrc_output"

(* the status of the job of call c: that of its job object, and failed once *)
(* the catch of startAlignment has replaced it by the failed job            *)
JobStatus(c) ==
    IF Settled(c) /\ job[c].status = "starting" THEN "failed" ELSE job[c].status

DispatchSucceeds(c) ==
    /\ Awaiting(c, "dispatch")
    /\ answered'[c] = [kind |-> "dispatch", outcome |-> "ok", runs |-> {}]

(* C24: in the timer hooks the status of a job only moves forward: from     *)
(* starting to processing when the dispatch succeeds, from starting to      *)
(* failed otherwise, from processing to one of completed, failed, timeout,  *)
(* and nowhere from these three; each move is published to currentJob.      *)
C24_StatusMovesForward ==
    [][(hook \in {1, 2}) => (\A c \in Calls :
        JobStatus(c)' # JobStatus(c) =>
            /\ currentJob'.status = JobStatus(c)'
            /\ \/ /\ JobStatus(c) = "null"
                  /\ JobStatus(c)' \in {"starting", "failed"}
               \/ /\ JobStatus(c) = "starting" /\ JobStatus(c)' = "processing"
                  /\ DispatchSucceeds(c)
               \/ /\ JobStatus(c) = "starting" /\ JobStatus(c)' = "failed"
                  /\ ~DispatchSucceeds(c)
               \/ /\ JobStatus(c) = "processing"
                  /\ JobStatus(c)' \in {"completed", "failed", "timeout"})]_vars

C24_Witness ==
    /\ hook = 1
    /\ \E c \in Calls :
        /\ JobStatus(c) = "failed"
        /\ "failure" \in seen[c]
        /\ Finished(c)

-----------------------------------------------------------------------------
(* The dispatch body for lyrics of every length up to MaxLyricsLength       *)

MaxLyricsLength == 1005

InitPayload ==
    /\ hook \in {1, 2, 3}
    /\ token = TRUE
    /\ created = [id \in RunIds |-> IF id = 1 THEN 12000 ELSE 45000]
    /\ lyrics \in {Text(n) : n \in 0..MaxLyricsLength}
    /\ Mounted

(* startAlignment up to the moment the dispatch request is sent *)
NextPayload ==
    \/ Start1(1)
    \/ Upload1(1, "ok")
    \/ Start2(1)
    \/ Tested2(1, "ok", 0)
    \/ Start3(1)

SpecPayload == InitPayload /\ [][NextPayload]_vars

(* the second hook's rule: the first 1000 characters and "..." for longer   *)
(* lyrics, the lyrics unchanged otherwise                                   *)
Truncated(c) ==
    IF Len(lyrics) > 1000
    THEN /\ Len(body[c]) = 1003
         /\ \A i \in 1..1000 : body[c][i] = lyrics[i]
         /\ \A i \in 1001..1003 : body[c][i] = "."
    ELSE body[c] = lyrics

(* C25: the lyrics field of a dispatch body is bounded: hook 2 sends lyrics *)
(* of more than 1000 characters as their first 1000 characters and "...",   *)
(* shorter ones unchanged, and in no hook is the field longer than that.    *)
C25_LyricsBounded ==
    \A c \in Calls : "dispatch" \in issued[c] =>
        /\ hook = 2 => Truncated(c)
        /\ Len(body[c]) <= 1003

(* the second hook's rule alone *)
C25_SecondHookTruncates ==
    \A c \in Calls : "dispatch" \in issued[c] /\ hook = 2 => Truncated(c)

(* the job of call c becomes st in this step *)
Becomes(c, st) == JobStatus(c)' \in st /\ JobStatus(c)' # JobStatus(c)

(* what C26 says of a step of the given hooks: a job that starts or goes on *)
(* to processing has isProcessing true, and isProcessing turns false only   *)
(* in a step where a job becomes completed, failed or timeout, or in reset  *)
ProcessingFollowsJob(hooks) ==
    hook \in hooks =>
        /\ \A c \in Calls : Becomes(c, {"starting"}) => isProcessing'
        /\ isProcessing /\ ~isProcessing' =>
            \/ ResetStep
            \/ \E c \in Calls : Becomes(c, {"completed", "failed", "timeout"})

(* C26: in the timer hooks isProcessing is true from the start of a job and *)
(* becomes false only when a job reaches completed, failed or timeout, or   *)
(* when reset is called.                                                    *)
C26_ProcessingUntilTerminal == [][ProcessingFollowsJob({1, 2})]_vars

(* the same in the second hook alone *)
C26_SecondHookProcessing == [][ProcessingFollowsJob({2})]_vars

-----------------------------------------------------------------------------
(* The hook as the FileUpload component drives it.  The component uses      *)
(* startAlignment, isProcessing, progress, error, result and reset, which   *)
(* hooks 2 and 3 return; hook 1 returns no reset, so with it the call of    *)
(* reset() in handleStartAlignment throws before startAlignment is reached. *)

(* result of the hook is not null (hook 2: lines 684-689, hook 3: result) *)
ResultShown == IF hook = 3 THEN result # NoResult ELSE currentJob.status = "completed"

(* the Start Alignment button is rendered and enabled, files being chosen   *)
(* (FileUpload.tsx lines 266-273)                                           *)
CanClickStartAlways == TRUE
CanClickStart == ~ResultShown /\ ~isProcessing

(* handleStartAlignment (FileUpload.tsx lines 57-76): reset(), then         *)
(* startAlignment, whose first block overwrites all that reset has set      *)
handleStartAlignment(c) ==
    /\ CanClickStart
    /\ Start2(c) \/ Start3(c)

(* handleNewAlignment (FileUpload.tsx lines 78-84), offered with the result *)
handleNewAlignment ==
    /\ ResultShown
    /\ reset2 \/ reset3

InitUpload ==
    /\ hook \in {2, 3}
    /\ token \in BOOLEAN
    /\ created = [id \in RunIds |-> IF id = 1 THEN 12000 ELSE 45000]
    /\ lyrics = Text(1)
    /\ Mounted

NextUpload ==
    \/ \E c \in Calls : handleStartAlignment(c)
    \/ handleNewAlignment
    \/ \E c \in Calls : Poll2(c) \/ Wake3(c)
    \/ \E c \in Calls, o \in {"ok", "http_error", "network_error"}, d \in Latencies :
            Tested2(c, o, d)
    \/ \E c \in Calls, o \in DispatchOutcomes, d \in Latencies :
            Dispatched2(c, o, d) \/ Dispatched3(c, o, d)
    \/ \E c \in Calls, d \in Latencies :
            /\ Awaiting(c, "list") /\ CanArrive(d)
            /\ \/ \E a \in ListAnswers(now + d) : Listed2(c, a, d)
               \/ \E a \in ListAnswers3(now + d) : Listed3(c, a, d)
    \/ \E c \in Calls, d \in Latencies :
            /\ Awaiting(c, "run") /\ CanArrive(d)
            /\ \E a \in RunAnswers(currentRun[c].id) : Polled3(c, a, d)
    \/ \E c \in Calls, d \in Latencies :
            /\ Awaiting(c, "artifacts") /\ CanArrive(d)
            /\ \E a \in ArtifactAnswers : Artifacts2(c, a, d) \/ Artifacts3(c, a, d)

SpecUpload == InitUpload /\ [][NextUpload]_vars

(* no call has a timer pending or a request in flight, call c apart *)
NothingPendingBut(c) ==
    \A b \in Calls : b # c => timers[b] = <<>> /\ inflight[b] = <<>>

(* C27: driven by FileUpload, whenever the start button can be clicked no   *)
(* job has a poll timer pending or a request in flight, and a call of       *)
(* startAlignment begins only when no earlier call has either.              *)
C27_OneJobThroughFileUpload ==
    /\ [](CanClickStart => \A c \in Calls : timers[c] = <<>> /\ inflight[c] = <<>>)
    /\ [][\A c \in Calls :
            promise[c] = "none" /\ promise'[c] # "none" => NothingPendingBut(c)]_vars

C27_Witness ==
    /\ promise[2] # "none"
    /\ issued[1] # {}
    /\ Finished(1)
    /\ inflight[2] # <<>>

(* a call of startAlignment finishes in this step *)
CallFinishes == \E c \in Calls : Settled(c)' /\ ~Settled(c)

BothSet == error # "null" /\ result # NoResult

(* only one call of startAlignment has been made *)
SingleJob == \A c \in Calls : c > 1 => promise[c] = "none"

(* C28: in hook 3 error and result are never both non-null, and when a call *)
(* of startAlignment finishes exactly one of them is non-null.              *)
C28_ErrorXorResult ==
    /\ [](hook = 3 => ~BothSet)
    /\ [][hook = 3 /\ CallFinishes => (error' # "null") # (result' # NoResult)]_vars

(* the same while only one call of startAlignment has been made *)
C28_SingleCall ==
    /\ [](hook = 3 /\ SingleJob => ~BothSet)
    /\ [][hook = 3 /\ SingleJob' /\ CallFinishes =>
            (error' # "null") # (result' # NoResult)]_vars

(* the promise of startAlignment resolves in this step, so that the line    *)
(* after the await in handleStartAlignment shows the success notification   *)
(* (FileUpload.tsx lines 70-72)                                             *)
ToastSuccess(c) == promise'[c] = "resolved" /\ promise[c] # "resolved"

(* C29: handleStartAlignment shows "Alignment completed successfully!" only *)
(* when the job has reached completed after a successful run, not while it  *)
(* is still polling and not when it ended in failed or timeout.             *)
C29_SuccessToastOnlyWhenCompleted ==
    [][\A c \in Calls : ToastSuccess(c) =>
            /\ Completed(c)'
            /\ "success" \in seen'[c]
            /\ timers'[c] = <<>> /\ inflight'[c] = <<>>]_vars
====
